---- MODULE Spec2Model ----
(***************************************************************************)
(* DenseNullOverlay composed with a FakeStorage inner column               *)
(* (src/trace_processor/db/column/dense_null_overlay.cc, fake_storage.cc). *)
(*                                                                         *)
(* Rows are numbered 0 .. NumRows-1.  A BitVector is a sequence of         *)
(* BOOLEAN; bit i of the C++ object is element i+1 of the sequence.  A     *)
(* Range is a record [start, end] (half open).  A RangeOrBitVector is a    *)
(* record [isRange, range, bv] of which one side is live.                  *)
(*                                                                         *)
(* One action is one call on the overlay (or on the FakeStorage).  A call  *)
(* that hits PERFETTO_CHECK / PERFETTO_FATAL aborts the process.  A failed *)
(* PERFETTO_DCHECK aborts in a debug build and is skipped in a release     *)
(* build: both outcomes are successors of the call.                        *)
(***************************************************************************)
EXTENDS Integers, Sequences, FiniteSets

\* Number of rows of the column (size of non_null and of the FakeStorage).
NumRows == 3
\* Largest index list handed to IndexSearch / OrderedIndexSearch / Sort.
MaxIndices == 3

\* Largest BitVector::Builder handed to the comparison loops of utils.h:
\* two whole words and a tail.
MaxBuilderSize == 130
\* Largest value a row of the compared column holds.
MaxValue == 2

VARIABLES non_null, inner, call, ret, trace, ids, cmp

vars == <<non_null, inner, call, ret, trace, ids, cmp>>

Rows == 0 .. (NumRows - 1)

\* FilterOp values the overlay is called with.
FilterOps == {"kEq", "kNe", "kLt", "kLe", "kGt", "kGe", "kIsNull", "kIsNotNull"}

\* SearchValidationResult values an inner column can answer with.
ValidationResults == {"kOk", "kNoData", "kAllData"}

Min(a, b) == IF a < b THEN a ELSE b
Max(a, b) == IF a > b THEN a ELSE b

(***************************************************************************)
(* Range (row_map.h)                                                       *)
(***************************************************************************)
Range(s, e) == [start |-> s, end |-> e]

\* Range(): the default, empty range.
EmptyRange == Range(0, 0)

RangeContains(r, i) == r.start <= i /\ i < r.end

\* Input ranges of Search: 0 <= start <= end <= NumRows.
Ranges == {Range(s, e) : s \in 0 .. NumRows, e \in 0 .. NumRows} \
          {r \in [start : 0 .. NumRows, end : 0 .. NumRows] : r.start > r.end}

(***************************************************************************)
(* BitVector (containers/bit_vector.h), by its contract                    *)
(***************************************************************************)
BitVectors(n) == [1 .. n -> BOOLEAN]

BvIsSet(bv, i) == i + 1 \in DOMAIN bv /\ bv[i + 1]

BvNot(bv) == [k \in 1 .. Len(bv) |-> ~bv[k]]

\* In-place combine: the receiver keeps its length.
BvAnd(bv, sec) == [k \in 1 .. Len(bv) |-> bv[k] /\ BvIsSet(sec, k - 1)]

BvOr(bv, sec) == [k \in 1 .. Len(bv) |-> bv[k] \/ BvIsSet(sec, k - 1)]

BvResize(bv, n, fill) == [k \in 1 .. n |-> IF k <= Len(bv) THEN bv[k] ELSE fill]

\* New BitVector of length e whose bits in [s,e) mirror bv, others false.
BvIntersectRange(bv, s, e) ==
    [k \in 1 .. e |-> s <= k - 1 /\ BvIsSet(bv, k - 1)]

\* Builder(size, skip) followed by the Appends of bits and Build():
\* skip unset bits, then the appended bits, then unset bits up to size.
BuilderBuild(size, skip, bits) ==
    [k \in 1 .. size |->
        k - 1 >= skip /\ k - skip \in DOMAIN bits /\ bits[k - skip]]

(***************************************************************************)
(* RangeOrBitVector                                                        *)
(***************************************************************************)
RangeResult(r) == [isRange |-> TRUE, range |-> r, bv |-> <<>>]

BitVectorResult(bv) == [isRange |-> FALSE, range |-> EmptyRange, bv |-> bv]

\* Rows (or positions) a result selects, as ToIndexVector lists them.
Selects(res, i) ==
    IF res.isRange THEN RangeContains(res.range, i) ELSE BvIsSet(res.bv, i)

NoResult == RangeResult(EmptyRange)

(***************************************************************************)
(* Index lists: sequences of row ids, position p is element p+1.           *)
(***************************************************************************)
\* The lists name a candidate subset of the rows, each row at most once, in
\* any order.
IndexLists ==
    UNION {{l \in [1 .. n -> Rows] : \A p, q \in 1 .. n : l[p] = l[q] => p = q} :
              n \in 0 .. MaxIndices}

\* std::partition_point(first, last, pred) over positions first .. last-1,
\* flags[p+1] = pred(data[p]).  On a partitioned range it is the position
\* of the first element failing pred; on a range that is not partitioned
\* the call's precondition is broken and any position of [first, last] can
\* come back.
PartitionPoint(flags, first, last) ==
    LET partitioned == \A i, j \in first .. (last - 1) :
                          (i < j /\ flags[j + 1]) => flags[i + 1]
        point == first + Cardinality({i \in first .. (last - 1) : flags[i + 1]})
    IN  IF partitioned THEN {point} ELSE first .. last

(***************************************************************************)
(* Events of the trace: the calls the overlay makes into inner_.           *)
(***************************************************************************)
Event(fn, in, indices, validation, res) ==
    [fn |-> fn, in |-> in, indices |-> indices,
     validation |-> validation, res |-> res]

ValidateEvent(v) ==
    Event("ValidateSearchConstraints", EmptyRange, <<>>, v, NoResult)

SearchEvent(in, res) == Event("Search", in, <<>>, "none", res)

IndexSearchEvent(indices, res) ==
    Event("IndexSearch", EmptyRange, indices, "none", res)

OrderedIndexSearchEvent(indices, r) ==
    Event("OrderedIndexSearch", EmptyRange, indices, "none", RangeResult(r))

(***************************************************************************)
(* FakeStorage                                                             *)
(***************************************************************************)
\* The FakeStorage objects of NumRows rows: strategy_, range_, bit_vector_.
FakeStorages ==
    {[strategy |-> s, range |-> EmptyRange, bv |-> <<>>] : s \in {"kAll", "kNone"}}
    \cup {[strategy |-> "kRange", range |-> r, bv |-> <<>>] : r \in Ranges}
    \cup {[strategy |-> "kBitVector", range |-> EmptyRange, bv |-> b] :
             b \in BitVectors(NumRows)}

FakeValidateSearchConstraints == "kOk"

FakeSearch(fake, in) ==
    CASE fake.strategy = "kAll" -> RangeResult(in)
      [] fake.strategy = "kNone" -> RangeResult(EmptyRange)
      [] fake.strategy = "kRange" ->
            RangeResult(Range(Max(in.start, fake.range.start),
                              Min(in.end, fake.range.end)))
      [] fake.strategy = "kBitVector" ->
            BitVectorResult(BvIntersectRange(fake.bv, in.start, in.end))

FakeIndexSearch(fake, indices) ==
    LET size == Len(indices)
    IN  CASE fake.strategy = "kAll" -> RangeResult(Range(0, size))
          [] fake.strategy = "kNone" -> RangeResult(EmptyRange)
          [] fake.strategy \in {"kRange", "kBitVector"} ->
                BitVectorResult(BuilderBuild(size, 0,
                    [p \in 1 .. size |->
                        LET in_range == fake.strategy = "kRange"
                                        /\ RangeContains(fake.range, indices[p])
                            in_bv == fake.strategy = "kBitVector"
                                     /\ BvIsSet(fake.bv, indices[p])
                        IN  in_range \/ in_bv]))

\* The ranges FakeStorage::OrderedIndexSearch can return: one, unless a
\* partition_point is called on indices that are not grouped.
FakeOrderedIndexSearch(fake, indices) ==
    LET size == Len(indices)
        member == [p \in 1 .. size |->
                     IF fake.strategy = "kRange"
                     THEN RangeContains(fake.range, indices[p])
                     ELSE BvIsSet(fake.bv, indices[p])]
        outside == [p \in 1 .. size |-> ~member[p]]
    IN  CASE fake.strategy = "kAll" -> {Range(0, size)}
          [] fake.strategy = "kNone" -> {EmptyRange}
          [] fake.strategy \in {"kRange", "kBitVector"} ->
                {Range(first_in, first_out) :
                    first_in \in PartitionPoint(outside, 0, size),
                    first_out \in 0 .. size} \cap
                {r \in [start : 0 .. size, end : 0 .. size] :
                    r.end \in PartitionPoint(member, r.start, size)}

(***************************************************************************)
(* Outcome of a call: what it returned (or that it aborted) and the calls  *)
(* it made into inner_.                                                    *)
(***************************************************************************)
Outcome(o, res, tr) == [outcome |-> o, res |-> res, trace |-> tr]

Returned(res, tr) == Outcome("value", res, tr)

Aborted(tr) == Outcome("abort", NoResult, tr)

\* PERFETTO_DCHECK(cond) followed by the outcomes of the rest of the call.
DCheck(cond, tr, rest) == IF cond THEN rest ELSE {Aborted(tr)} \cup rest

(***************************************************************************)
(* DenseNullOverlay::Search                                                *)
(***************************************************************************)
\* IsNull, kNoData: IntersectRange, Not, Resize.
SearchNoData(nn, in) ==
    BvResize(BvNot(BvIntersectRange(nn, in.start, in.end)), in.end, FALSE)

\* SearchMaskRange without the Resize to in.end.
SearchMaskRangeNoResize(nn, inner_range, in) ==
    BvIntersectRange(nn, inner_range.start, inner_range.end)

\* Inner answered with a range: mask it with non_null_, resize to in.end.
SearchMaskRange(nn, inner_range, in) ==
    BvResize(BvIntersectRange(nn, inner_range.start, inner_range.end),
             in.end, FALSE)

\* SearchCombine that leaves null rows in the answer of a value predicate.
SearchCombineNoAnd(nn, op, res, in) ==
    IF op = "kIsNull"
    THEN BvOr(res, BvNot(BvResize(nn, in.end, FALSE)))
    ELSE res

\* SearchCombine that does not add the null rows for IsNull.
SearchCombineNoOr(nn, op, res, in) ==
    IF op = "kIsNull" THEN res ELSE BvAnd(res, nn)

\* The nullness combination.
SearchCombine(nn, op, res, in) ==
    IF op = "kIsNull"
    THEN BvOr(res, BvNot(BvResize(nn, in.end, FALSE)))
    ELSE BvAnd(res, nn)

\* The part of Search from the call into inner_ on.
SearchInner(nn, fake, op, in, tr0) ==
    LET inner_res == FakeSearch(fake, in)
        tr == Append(tr0, SearchEvent(in, inner_res))
        inner_range == inner_res.range
        masked == IF inner_res.isRange
                  THEN SearchMaskRange(nn, inner_range, in)
                  ELSE inner_res.bv
        res == SearchCombine(nn, op, masked, in)
        tail == DCheck(Len(res) = in.end, tr,
                       {Returned(BitVectorResult(res), tr)})
    IN  IF inner_res.isRange
        THEN DCheck(inner_range.end <= in.end /\ inner_range.start >= in.start,
                    tr, tail)
        ELSE tail

\* All outcomes of Search(op, sql_val, in) when inner_ classifies the
\* constraint as v.
DenseSearch(nn, fake, op, in, v) ==
    IF op = "kIsNull"
    THEN CASE v = "kNoData" ->
                {Returned(BitVectorResult(SearchNoData(nn, in)),
                          <<ValidateEvent(v)>>)}
           [] v = "kAllData" ->
                {Returned(RangeResult(in), <<ValidateEvent(v)>>)}
           [] v = "kOk" ->
                SearchInner(nn, fake, op, in, <<ValidateEvent(v)>>)
    ELSE SearchInner(nn, fake, op, in, <<>>)

(***************************************************************************)
(* DenseNullOverlay::IndexSearch                                           *)
(***************************************************************************)
\* IsNull, kNoData: one bit per position, set when the row is null.
IndexSearchNoData(nn, indices) ==
    BuilderBuild(Len(indices), 0,
                 [p \in 1 .. Len(indices) |-> ~BvIsSet(nn, indices[p])])

\* Inner answered with a range: Builder(indices.size, inner_range.start)
\* and one Append per position of the range.
IndexSearchMaskRange(nn, inner_range, indices) ==
    BuilderBuild(Len(indices), inner_range.start,
                 [k \in 1 .. (inner_range.end - inner_range.start) |->
                     BvIsSet(nn, indices[inner_range.start + k])])

\* IndexSearchNonNull that looks non_null_ up at the position, not at the
\* row id the position names.
IndexSearchNonNullByPosition(nn, indices) ==
    BuilderBuild(Len(indices), 0,
                 [p \in 1 .. Len(indices) |-> BvIsSet(nn, p - 1)])

\* non_null_ looked up at every position.
IndexSearchNonNull(nn, indices) ==
    BuilderBuild(Len(indices), 0,
                 [p \in 1 .. Len(indices) |-> BvIsSet(nn, indices[p])])

\* Inner answered with a BitVector: the nullness combination.
IndexSearchCombine(op, res, pos_non_null) ==
    IF op = "kIsNull"
    THEN BvOr(res, BvNot(pos_non_null))
    ELSE BvAnd(res, pos_non_null)

IndexSearchInner(nn, fake, op, indices, tr0) ==
    LET inner_res == FakeIndexSearch(fake, indices)
        tr == Append(tr0, IndexSearchEvent(indices, inner_res))
        res == IndexSearchCombine(op, inner_res.bv,
                                  IndexSearchNonNull(nn, indices))
    IN  IF inner_res.isRange
        THEN {Returned(BitVectorResult(
                  IndexSearchMaskRange(nn, inner_res.range, indices)), tr)}
        ELSE DCheck(Len(res) = Len(indices), tr,
                    {Returned(BitVectorResult(res), tr)})

DenseIndexSearch(nn, fake, op, indices, v) ==
    IF op = "kIsNull"
    THEN CASE v = "kNoData" ->
                {Returned(BitVectorResult(IndexSearchNoData(nn, indices)),
                          <<ValidateEvent(v)>>)}
           [] v = "kAllData" ->
                {Returned(RangeResult(Range(0, Len(indices))),
                          <<ValidateEvent(v)>>)}
           [] v = "kOk" ->
                IndexSearchInner(nn, fake, op, indices, <<ValidateEvent(v)>>)
    ELSE IndexSearchInner(nn, fake, op, indices, <<>>)

(***************************************************************************)
(* DenseNullOverlay::OrderedIndexSearch                                    *)
(***************************************************************************)
\* FirstNonNull with the predicate the wrong way round.
FirstNonNullFlipped(nn, indices) ==
    PartitionPoint([p \in 1 .. Len(indices) |-> BvIsSet(nn, indices[p])],
                   0, Len(indices))

\* The positions first_non_null can be: partition_point over !IsSet.
FirstNonNull(nn, indices) ==
    PartitionPoint([p \in 1 .. Len(indices) |-> ~BvIsSet(nn, indices[p])],
                   0, Len(indices))

\* Indices{first_non_null, non_null_size, kNonmonotonic}.
NonNullSuffix(indices, non_null_offset) ==
    SubSeq(indices, non_null_offset + 1, Len(indices))

\* TranslateRange that returns inner's range as it is.
TranslateRangeNoOffset(inner_range, non_null_offset) ==
    Range(inner_range.start, inner_range.end)

\* Inner's range moved back into the positions of the whole index list.
TranslateRange(inner_range, non_null_offset) ==
    Range(inner_range.start + non_null_offset,
          inner_range.end + non_null_offset)

OrderedIndexSearchInner(fake, op, indices, non_null_offset, tr0) ==
    LET suffix == NonNullSuffix(indices, non_null_offset)
    IN  {Returned(RangeResult(TranslateRange(r, non_null_offset)),
                  Append(tr0, OrderedIndexSearchEvent(suffix, r))) :
            r \in FakeOrderedIndexSearch(fake, suffix)}

\* The outcomes once first_non_null is known.
OrderedIndexSearchFrom(fake, op, indices, non_null_offset, v) ==
    CASE op = "kIsNull" ->
            {Returned(RangeResult(Range(0, non_null_offset)), <<>>)}
      [] op = "kIsNotNull" /\ v = "kNoData" ->
            {Returned(RangeResult(EmptyRange), <<ValidateEvent(v)>>)}
      [] op = "kIsNotNull" /\ v = "kAllData" ->
            {Returned(RangeResult(Range(non_null_offset, Len(indices))),
                      <<ValidateEvent(v)>>)}
      [] op = "kIsNotNull" /\ v = "kOk" ->
            OrderedIndexSearchInner(fake, op, indices, non_null_offset,
                                    <<ValidateEvent(v)>>)
      [] OTHER ->
            OrderedIndexSearchInner(fake, op, indices, non_null_offset, <<>>)

\* DenseOrderedIndexSearch without the check on Ne.
DenseOrderedIndexSearchNoCheck(nn, fake, op, indices, v) ==
    UNION {OrderedIndexSearchFrom(fake, op, indices, off, v) :
              off \in FirstNonNull(nn, indices)}

DenseOrderedIndexSearch(nn, fake, op, indices, v) ==
    IF op = "kNe"
    THEN {Aborted(<<>>)}
    ELSE UNION {OrderedIndexSearchFrom(fake, op, indices, off, v) :
                   off \in FirstNonNull(nn, indices)}

(***************************************************************************)
(* Sort, StableSort, Serialize: PERFETTO_FATAL                             *)
(***************************************************************************)
\* What a call leaves in the caller's row-id array (ptr, len).
DenseStableSort(rows) == [outcome |-> Aborted(<<>>), rows |-> rows]

DenseSort(rows) == [outcome |-> Aborted(<<>>), rows |-> rows]

FakeStableSort(rows) == [outcome |-> Aborted(<<>>), rows |-> rows]

FakeSort(rows) == [outcome |-> Aborted(<<>>), rows |-> rows]

FakeSerialize == Aborted(<<>>)

(***************************************************************************)
(* State machine                                                           *)
(***************************************************************************)
NoCall == [fn |-> "none", op |-> "none", in |-> EmptyRange,
           indices |-> <<>>]

NoRet == [outcome |-> "none", res |-> NoResult]

Init ==
    /\ non_null \in BitVectors(NumRows)
    /\ inner \in FakeStorages
    /\ call = NoCall
    /\ ret = NoRet
    /\ trace = <<>>
    /\ ids = <<>>
    /\ cmp = [fn |-> "none", size |-> 0, skip |-> 0]

\* The caller is between calls: nothing is pending and nothing aborted.
Idle == call.fn = "none"

Finish(fn, op, in, indices, o) ==
    /\ call' = [fn |-> fn, op |-> op, in |-> in, indices |-> indices]
    /\ ret' = [outcome |-> o.outcome, res |-> o.res]
    /\ trace' = o.trace
    /\ UNCHANGED <<non_null, inner, cmp>>

\* The answers of inner_->ValidateSearchConstraints(sql_val, op) a call
\* with op can see: the overlay asks only for the op named asking, and a
\* Column can classify (sql_val, op) any way; FakeStorage says kOk.
Validations(op, asking) ==
    IF op = asking
    THEN ValidationResults \cup {FakeValidateSearchConstraints}
    ELSE {FakeValidateSearchConstraints}

Search ==
    /\ Idle
    /\ \E op \in FilterOps, in \in Ranges :
         \E v \in Validations(op, "kIsNull") :
           \E o \in DenseSearch(non_null, inner, op, in, v) :
              /\ Finish("Search", op, in, <<>>, o)
              /\ UNCHANGED ids

IndexSearch ==
    /\ Idle
    /\ \E op \in FilterOps, indices \in IndexLists :
         \E v \in Validations(op, "kIsNull") :
           \E o \in DenseIndexSearch(non_null, inner, op, indices, v) :
              /\ Finish("IndexSearch", op, EmptyRange, indices, o)
              /\ UNCHANGED ids

OrderedIndexSearch ==
    /\ Idle
    /\ \E op \in FilterOps, indices \in IndexLists :
         \E v \in Validations(op, "kIsNotNull") :
           \E o \in DenseOrderedIndexSearch(non_null, inner, op, indices, v) :
              /\ Finish("OrderedIndexSearch", op, EmptyRange, indices, o)
              /\ UNCHANGED ids

\* A sort call on the row-id array rows owned by the caller.
SortCall(fn, rows, r) ==
    /\ Finish(fn, "none", EmptyRange, rows, r.outcome)
    /\ ids' = r.rows

StableSort ==
    /\ Idle
    /\ \E rows \in IndexLists : SortCall("StableSort", rows, DenseStableSort(rows))

Sort ==
    /\ Idle
    /\ \E rows \in IndexLists : SortCall("Sort", rows, DenseSort(rows))

FakeStorageStableSort ==
    /\ Idle
    /\ \E rows \in IndexLists :
          SortCall("FakeStorage::StableSort", rows, FakeStableSort(rows))

FakeStorageSort ==
    /\ Idle
    /\ \E rows \in IndexLists :
          SortCall("FakeStorage::Sort", rows, FakeSort(rows))

FakeStorageSerialize ==
    /\ Idle
    /\ Finish("FakeStorage::Serialize", "none", EmptyRange, <<>>, FakeSerialize)
    /\ UNCHANGED ids

\* The caller takes the result out of the RangeOrBitVector (TakeIfRange /
\* TakeIfBitVector) and is free to call again; an aborted process is gone.
Consume ==
    /\ ret.outcome = "value"
    /\ call' = NoCall
    /\ ret' = NoRet
    /\ trace' = <<>>
    /\ ids' = <<>>
    /\ UNCHANGED <<non_null, inner, cmp>>

Next ==
    \/ Search
    \/ IndexSearch
    \/ OrderedIndexSearch
    \/ StableSort
    \/ Sort
    \/ FakeStorageStableSort
    \/ FakeStorageSort
    \/ FakeStorageSerialize
    \/ Consume

Spec == Init /\ [][Next]_vars

(***************************************************************************)
(* BitVector::Builder (containers/bit_vector.h), by its contract: size     *)
(* bits, a cursor (offset) that starts at skip, Append of one bit at the   *)
(* cursor, AppendWord of a whole word at the cursor's word.                *)
(***************************************************************************)
kBitsInWord == 64

WordCount(nbits) == (nbits + kBitsInWord - 1) \div kBitsInWord

WordFloor(nbits) == nbits \div kBitsInWord

Builder(size, skip) ==
    [size |-> size, offset |-> skip, bits |-> [p \in 1 .. size |-> FALSE]]

BitsUntilFull(b) == b.size - b.offset

BitsUntilWordBoundaryOrFull(b) ==
    IF b.offset = 0 /\ b.size < kBitsInWord
    THEN b.size
    ELSE Min(BitsUntilFull(b),
             (kBitsInWord - (b.offset % kBitsInWord)) % kBitsInWord)

BitsInCompleteWordsUntilFull(b) ==
    LET next_word == WordCount(b.offset)
        end_word == WordFloor(b.size)
    IN  (IF next_word < end_word THEN end_word - next_word ELSE 0) * kBitsInWord

\* for (...) builder.Append(vals[i]): each bit is or-ed in at the cursor.
BuilderAppendAll(b, vals) ==
    [b EXCEPT !.offset = b.offset + Len(vals),
              !.bits = [p \in 1 .. b.size |->
                          IF b.offset < p /\ p <= b.offset + Len(vals)
                          THEN b.bits[p] \/ vals[p - b.offset]
                          ELSE b.bits[p]]]

\* AppendWord(word): the word of the cursor is overwritten, the cursor moves
\* on by a word.
BuilderAppendWord(b, word) ==
    LET base == (b.offset \div kBitsInWord) * kBitsInWord
    IN  [b EXCEPT !.offset = b.offset + kBitsInWord,
                  !.bits = [p \in 1 .. b.size |->
                              IF base < p /\ p <= base + kBitsInWord
                              THEN word[p - base]
                              ELSE b.bits[p]]]

(***************************************************************************)
(* utils.h: LinearSearchWithComparator, IndexSearchWithComparator          *)
(***************************************************************************)
Comparators == {"equal_to", "less"}

Compare(comparator, x, val) ==
    IF comparator = "equal_to" THEN x = val ELSE x < val

\* *(ptr + j): element j of the array, 0 where the read runs off its end.
Deref(array, j) == IF j + 1 \in DOMAIN array THEN array[j + 1] ELSE 0

\* The state of a run of one of the loops: the builder, the number of
\* elements consumed (cur_val - data_ptr, cur_idx - indices), the cursor at
\* each AppendWord, the length of each phase.
RunState(b) == [builder |-> b, consumed |-> 0, word_at |-> <<>>, phases |-> <<>>]

\* A scalar phase: count elements compared and appended one by one;
\* values[j + 1] is the value the j-th comparison of the run reads.
ScalarPhase(st, count, comparator, val, values) ==
    [builder |-> BuilderAppendAll(st.builder,
                    [i \in 1 .. count |->
                        Compare(comparator, Deref(values, st.consumed + i - 1), val)]),
     consumed |-> st.consumed + count,
     word_at |-> st.word_at,
     phases |-> Append(st.phases, count)]

\* One iteration of the fast loop: kBitsInWord comparisons or-ed into a
\* word, then AppendWord.
FastWord(st, comparator, val, values) ==
    [builder |-> BuilderAppendWord(st.builder,
                    [k \in 1 .. kBitsInWord |->
                        Compare(comparator, Deref(values, st.consumed + k - 1), val)]),
     consumed |-> st.consumed + kBitsInWord,
     word_at |-> Append(st.word_at, st.builder.offset),
     phases |-> st.phases]

\* for (i = 0; i < fast_path_elements; i += kBitsInWord): the fast loop
\* from iteration variable i on.
RECURSIVE FastPath(_, _, _, _, _, _)
FastPath(st, i, fast_path_elements, comparator, val, values) ==
    IF i < fast_path_elements
    THEN FastPath(FastWord(st, comparator, val, values), i + kBitsInWord,
                  fast_path_elements, comparator, val, values)
    ELSE [st EXCEPT !.phases = Append(st.phases, fast_path_elements)]

\* LinearSearchWithComparator without the scalar phase that takes the
\* cursor to a word boundary.
LinearSearchNoFrontPhase(val, data, comparator, builder) ==
    LET st0 == [RunState(builder) EXCEPT !.phases = <<0>>]
        fast == FastPath(st0, 0, BitsInCompleteWordsUntilFull(st0.builder),
                         comparator, val, data)
    IN  ScalarPhase(fast, BitsUntilFull(fast.builder), comparator, val, data)

\* LinearSearchWithComparator(val, data_ptr, comparator, builder).
LinearSearchWithComparator(val, data, comparator, builder) ==
    LET st0 == RunState(builder)
        front == ScalarPhase(st0, BitsUntilWordBoundaryOrFull(st0.builder),
                             comparator, val, data)
        fast == FastPath(front, 0, BitsInCompleteWordsUntilFull(front.builder),
                         comparator, val, data)
    IN  ScalarPhase(fast, BitsUntilFull(fast.builder), comparator, val, data)

\* data_ptr[indices[k]] for each k: what the comparisons of the indexed
\* loop read.
Gather(data, indices) ==
    [k \in 1 .. Len(indices) |-> Deref(data, indices[k])]

\* IndexSearchWithComparator(val, data_ptr, indices, comparator, builder).
IndexSearchWithComparator(val, data, indices, comparator, builder) ==
    LET st0 == RunState(builder)
        values == Gather(data, indices)
        fast == FastPath(st0, 0, BitsInCompleteWordsUntilFull(st0.builder),
                         comparator, val, values)
    IN  ScalarPhase(fast, BitsUntilFull(fast.builder), comparator, val, values)

(***************************************************************************)
(* The comparison loops as a state machine: one call on a fresh state.     *)
(***************************************************************************)
\* The column data a loop runs over: row j holds j modulo MaxValue + 1, so
\* that every window of the column differs from its neighbours.
ColumnData(len) == [j \in 1 .. len |-> (j - 1) % (MaxValue + 1)]

\* The values searched for.
Values == 0 .. MaxValue

\* The row ids of an indexed search over len rows, in one of two orders.
IndexOrders == {"ascending", "descending"}

RowIds(len, order) ==
    [k \in 1 .. len |-> IF order = "ascending" THEN k - 1 ELSE len - k]

\* Every AppendWord of the run met AppendWord's assertions.
WordAppendsOk(run, size) ==
    \A w \in 1 .. Len(run.word_at) :
        run.word_at[w] % kBitsInWord = 0 /\ run.word_at[w] + kBitsInWord <= size

\* A call returns; one whose AppendWord assertion failed aborts in a debug
\* build instead.
CmpOutcomes(run, size) ==
    IF WordAppendsOk(run, size) THEN {"value"} ELSE {"value", "abort"}

\* The caller has constructed BitVector::Builder builder(size, skip).
CmpInit ==
    /\ non_null = <<>>
    /\ inner = [strategy |-> "kNone", range |-> EmptyRange, bv |-> <<>>]
    /\ call = NoCall
    /\ ret = NoRet
    /\ trace = <<>>
    /\ ids = <<>>
    /\ \E size \in 0 .. MaxBuilderSize :
         \E skip \in 0 .. size :
            cmp = [fn |-> "none", size |-> size, skip |-> skip]

CmpFinish(fn, data, indices, comparator, val, run) ==
    /\ \E o \in CmpOutcomes(run, cmp.size) :
          cmp' = [fn |-> fn, size |-> cmp.size, skip |-> cmp.skip,
                  data |-> data, indices |-> indices,
                  comparator |-> comparator, val |-> val,
                  outcome |-> o, run |-> run]
    /\ UNCHANGED <<non_null, inner, call, ret, trace, ids>>

LinearSearch ==
    /\ cmp.fn = "none"
    /\ \E comparator \in Comparators, val \in Values :
          LET data == ColumnData(cmp.size - cmp.skip)
          IN  CmpFinish("LinearSearchWithComparator", data, <<>>,
                        comparator, val,
                        LinearSearchWithComparator(val, data, comparator,
                            Builder(cmp.size, cmp.skip)))

IndexedSearch ==
    /\ cmp.fn = "none"
    /\ \E comparator \in Comparators, val \in Values, order \in IndexOrders :
          LET data == ColumnData(cmp.size - cmp.skip)
              indices == RowIds(cmp.size - cmp.skip, order)
          IN  CmpFinish("IndexSearchWithComparator", data, indices,
                        comparator, val,
                        IndexSearchWithComparator(val, data, indices,
                            comparator, Builder(cmp.size, cmp.skip)))

CmpNext ==
    \/ LinearSearch
    \/ IndexedSearch

CmpSpec == CmpInit /\ [][CmpNext]_vars

(***************************************************************************)
(* Properties                                                              *)
(***************************************************************************)
\* The last call is fn and it returned a value.
ReturnedFrom(fn) == call.fn = fn /\ ret.outcome = "value"

\* The call reached inner_'s fn: it is the last event of the trace.
ReachedInner(fn) == trace # <<>> /\ trace[Len(trace)].fn = fn

\* What inner_ answered to that call.
InnerRes == trace[Len(trace)].res

\* What inner_ answered to ValidateSearchConstraints, when it was asked.
InnerValidation == IF trace # <<>> /\ trace[1].fn = "ValidateSearchConstraints"
                   THEN trace[1].validation ELSE "none"

InRange(in) == in.start .. (in.end - 1)

Positions(indices) == 0 .. (Len(indices) - 1)

\* Position p of indices names a null row.
NullAt(indices, p) == ~BvIsSet(non_null, indices[p + 1])

NullCount(indices) == Cardinality({p \in Positions(indices) : NullAt(indices, p)})

\* All positions naming null rows precede all positions naming non-null rows.
NullsFirst(indices) ==
    \A p, q \in Positions(indices) :
        (p < q /\ NullAt(indices, q)) => NullAt(indices, p)

\* C1: for op other than IsNull, a returned Search selects row i of the
\* input range iff inner's answer (Range or BitVector) selects i and
\* non_null[i] is set.
C1_SearchMasksInner ==
    (ReturnedFrom("Search") /\ call.op # "kIsNull") =>
        /\ ReachedInner("Search")
        /\ \A i \in InRange(call.in) :
              Selects(ret.res, i) <=>
                  (Selects(InnerRes, i) /\ BvIsSet(non_null, i))

C1_Witness ==
    /\ ReturnedFrom("Search") /\ call.op # "kIsNull"
    /\ ReachedInner("Search") /\ ~InnerRes.isRange
    /\ call.in.start > 0
    /\ \E i \in InRange(call.in) : Selects(ret.res, i)
    /\ \E i \in InRange(call.in) : Selects(InnerRes, i) /\ ~Selects(ret.res, i)

\* C2 as claimed: a returned Search(IsNull) selects row i of the input
\* range iff non_null[i] is unset, whatever inner_ classifies and answers.
C2_IsNullIgnoresInner ==
    (ReturnedFrom("Search") /\ call.op = "kIsNull") =>
        \A i \in InRange(call.in) :
            Selects(ret.res, i) <=> ~BvIsSet(non_null, i)

\* Row i is claimed by inner_ for IsNull: classified kAllData, or
\* classified kOk and selected by inner_'s Search.
InnerClaimsNull(i) ==
    \/ InnerValidation = "kAllData"
    \/ InnerValidation = "kOk" /\ ReachedInner("Search") /\ Selects(InnerRes, i)

\* C2 amended: a returned Search(IsNull) selects row i of the input range
\* iff non_null[i] is unset or inner_ claims the row (classification
\* kAllData, or kOk and inner's Search selects i); on kNoData it selects
\* exactly the null rows.
C2_IsNullOrInner ==
    (ReturnedFrom("Search") /\ call.op = "kIsNull") =>
        /\ InnerValidation \in ValidationResults
        /\ \A i \in InRange(call.in) :
              Selects(ret.res, i) <=>
                  (~BvIsSet(non_null, i) \/ InnerClaimsNull(i))

C2_Witness ==
    /\ ReturnedFrom("Search") /\ call.op = "kIsNull"
    /\ InnerValidation = "kOk" /\ ReachedInner("Search")
    /\ \E i \in InRange(call.in) : ~BvIsSet(non_null, i) /\ Selects(ret.res, i)
    /\ \E i \in InRange(call.in) :
          BvIsSet(non_null, i) /\ Selects(InnerRes, i) /\ Selects(ret.res, i)
    /\ \E i \in InRange(call.in) : ~Selects(ret.res, i)

\* C3: a BitVector returned by Search has length in.end; a BitVector
\* returned by IndexSearch has length indices.size and a Range returned by
\* it has extent indices.size.
C3_ResultLength ==
    /\ (ReturnedFrom("Search") /\ ~ret.res.isRange) =>
           Len(ret.res.bv) = call.in.end
    /\ (ReturnedFrom("IndexSearch") /\ ~ret.res.isRange) =>
           Len(ret.res.bv) = Len(call.indices)
    /\ (ReturnedFrom("IndexSearch") /\ ret.res.isRange) =>
           ret.res.range.end - ret.res.range.start = Len(call.indices)

C3_Witness ==
    /\ ReturnedFrom("Search") /\ ~ret.res.isRange
    /\ ReachedInner("Search") /\ InnerRes.isRange
    /\ InnerRes.range.start < InnerRes.range.end
    /\ InnerRes.range.end < call.in.end
    /\ Len(ret.res.bv) = call.in.end

\* C4: a BitVector returned by Search, for any op, has no bit set at an
\* index below in.start.
C4_NothingBeforeStart ==
    (ReturnedFrom("Search") /\ ~ret.res.isRange) =>
        \A i \in 0 .. (call.in.start - 1) : ~BvIsSet(ret.res.bv, i)

\* C5: for op other than IsNull, a returned IndexSearch selects position p
\* iff inner's IndexSearch answer selects p and the row indices.data[p] is
\* non-null.
C5_IndexSearchMasksInner ==
    (ReturnedFrom("IndexSearch") /\ call.op # "kIsNull") =>
        /\ ReachedInner("IndexSearch")
        /\ \A p \in Positions(call.indices) :
              Selects(ret.res, p) <=>
                  (Selects(InnerRes, p) /\ ~NullAt(call.indices, p))

C5_Witness ==
    /\ ReturnedFrom("IndexSearch") /\ call.op # "kIsNull"
    /\ ReachedInner("IndexSearch") /\ ~InnerRes.isRange
    /\ \E p, q \in Positions(call.indices) :
          p < q /\ call.indices[p + 1] > call.indices[q + 1]
    /\ \E p \in Positions(call.indices) :
          Selects(ret.res, p) /\ ~BvIsSet(non_null, p)
    /\ \E p \in Positions(call.indices) :
          Selects(InnerRes, p) /\ ~Selects(ret.res, p)

\* C6: when inner_ classifies IsNull as kOk, a returned IndexSearch(IsNull)
\* selects position p iff inner's answer selects p or the row
\* indices.data[p] is null.
C6_IndexSearchIsNullOr ==
    (ReturnedFrom("IndexSearch") /\ call.op = "kIsNull"
        /\ InnerValidation = "kOk") =>
        /\ ReachedInner("IndexSearch")
        /\ \A p \in Positions(call.indices) :
              Selects(ret.res, p) <=>
                  (Selects(InnerRes, p) \/ NullAt(call.indices, p))

\* C7: on nulls-first indices OrderedIndexSearch(IsNull) returns [0, k), k
\* the number of positions naming null rows, and makes no call into inner_.
C7_OrderedIsNull ==
    (ReturnedFrom("OrderedIndexSearch") /\ call.op = "kIsNull"
        /\ NullsFirst(call.indices)) =>
        /\ ret.res = RangeResult(Range(0, NullCount(call.indices)))
        /\ trace = <<>>

C7_Witness ==
    /\ ReturnedFrom("OrderedIndexSearch") /\ call.op = "kIsNull"
    /\ NullsFirst(call.indices)
    /\ 0 < NullCount(call.indices)
    /\ NullCount(call.indices) < Len(call.indices)
    /\ ret.res.range = Range(0, NullCount(call.indices))

SortCalls == {"StableSort", "Sort", "FakeStorage::StableSort", "FakeStorage::Sort"}

\* C8: OrderedIndexSearch with Ne, Sort and StableSort of the overlay, and
\* Serialize, Sort and StableSort of FakeStorage abort: none returns, none
\* calls into inner_, and a sort leaves the caller's row ids as they were.
C8_MisuseAborts ==
    /\ (call.fn = "OrderedIndexSearch" /\ call.op = "kNe") =>
           (ret.outcome = "abort" /\ trace = <<>>)
    /\ (call.fn \in SortCalls) =>
           (ret.outcome = "abort" /\ trace = <<>> /\ ids = call.indices)
    /\ (call.fn = "FakeStorage::Serialize") =>
           (ret.outcome = "abort" /\ trace = <<>>)

C8_Witness ==
    /\ call.fn = "OrderedIndexSearch" /\ call.op = "kNe"
    /\ Len(call.indices) > 1
    /\ ret.outcome = "abort"

\* C9: a Range that Search receives from inner_'s Search lies inside the
\* input range: in.start <= inner.start <= inner.end <= in.end.
C9_InnerRangeInsideInput ==
    (call.fn = "Search" /\ ReachedInner("Search") /\ InnerRes.isRange) =>
        /\ call.in.start <= InnerRes.range.start
        /\ InnerRes.range.start <= InnerRes.range.end
        /\ InnerRes.range.end <= call.in.end

\* C10: for op other than Ne and IsNull on nulls-first indices with a null
\* prefix of size offset, a call that reaches inner_ hands it the non-null
\* suffix and returns inner's range moved up by offset, which ends within
\* indices.size and names no null row; IsNotNull classified kNoData gives
\* the empty range and kAllData gives [offset, indices.size).
C10_OrderedSuffix ==
    (ReturnedFrom("OrderedIndexSearch") /\ call.op \notin {"kNe", "kIsNull"}
        /\ NullsFirst(call.indices)) =>
        LET offset == NullCount(call.indices)
            size == Len(call.indices)
        IN  /\ ret.res.isRange
            /\ InnerValidation = "kNoData" =>
                  ret.res.range.start = ret.res.range.end
            /\ InnerValidation = "kAllData" =>
                  ret.res.range = Range(offset, size)
            /\ InnerValidation \in {"kOk", "none"} =>
                  /\ ReachedInner("OrderedIndexSearch")
                  /\ trace[Len(trace)].indices = SubSeq(call.indices, offset + 1, size)
                  /\ ret.res.range = Range(InnerRes.range.start + offset,
                                           InnerRes.range.end + offset)
                  /\ ret.res.range.end <= size
                  /\ \A p \in InRange(ret.res.range) : ~NullAt(call.indices, p)

C10_Witness ==
    /\ ReturnedFrom("OrderedIndexSearch") /\ call.op = "kGe"
    /\ NullsFirst(call.indices)
    /\ NullCount(call.indices) > 0
    /\ ReachedInner("OrderedIndexSearch")
    /\ InnerRes.range.start < InnerRes.range.end
    /\ Len(trace[Len(trace)].indices) < Len(call.indices)
    /\ ret.res.range.start = InnerRes.range.start + NullCount(call.indices)

\* The last call is the loop fn of utils.h.
CmpCalled(fn) == cmp.fn = fn

\* Bit skip + k of the builder is the comparison of the k-th value read.
BitsAreComparisons(values) ==
    \A k \in 0 .. (cmp.size - cmp.skip - 1) :
        cmp.run.builder.bits[cmp.skip + k + 1] =
            Compare(cmp.comparator, values[k + 1], cmp.val)

\* C11: for a builder of size n with the cursor at any s <= n,
\* LinearSearchWithComparator returns with the builder full, has consumed
\* the n - s elements data[0 .. n-s), has set bit s + j to
\* comparator(data[j], val) for every j, has called AppendWord only on a
\* word boundary with a whole word left, and its three phase lengths sum to
\* n - s.
C11_LinearSearchFills ==
    CmpCalled("LinearSearchWithComparator") =>
        /\ cmp.outcome = "value"
        /\ cmp.run.builder.offset = cmp.size
        /\ cmp.run.consumed = cmp.size - cmp.skip
        /\ Len(cmp.data) = cmp.size - cmp.skip
        /\ BitsAreComparisons(cmp.data)
        /\ WordAppendsOk(cmp.run, cmp.size)
        /\ Len(cmp.run.phases) = 3
        /\ cmp.run.phases[1] + cmp.run.phases[2] + cmp.run.phases[3]
              = cmp.size - cmp.skip

C11_Witness ==
    /\ CmpCalled("LinearSearchWithComparator")
    /\ cmp.skip % kBitsInWord # 0
    /\ cmp.run.phases[1] > 0 /\ cmp.run.phases[2] > 0 /\ cmp.run.phases[3] > 0
    /\ Len(cmp.run.word_at) = 1
    /\ cmp.run.builder.offset = cmp.size
    /\ \E p \in (cmp.skip + 1) .. cmp.size : cmp.run.builder.bits[p]
    /\ \E p \in (cmp.skip + 1) .. cmp.size : ~cmp.run.builder.bits[p]

\* C12: for a builder of size n with the cursor at any s <= n,
\* IndexSearchWithComparator returns with the builder full, has consumed
\* the n - s entries indices[0 .. n-s), has set bit s + k to
\* comparator(data[indices[k]], val) for every k, and has called AppendWord
\* only on a word boundary.
C12_IndexSearchFills ==
    CmpCalled("IndexSearchWithComparator") =>
        /\ cmp.outcome = "value"
        /\ cmp.run.builder.offset = cmp.size
        /\ cmp.run.consumed = cmp.size - cmp.skip
        /\ Len(cmp.indices) = cmp.size - cmp.skip
        /\ BitsAreComparisons(Gather(cmp.data, cmp.indices))
        /\ \A w \in 1 .. Len(cmp.run.word_at) :
              cmp.run.word_at[w] % kBitsInWord = 0

====
